---- MODULE Spec2Model ----
\* Model of tmp_update_index.py: read index.ts, remove three literal lines
\* with str.replace (non-overlapping, left-to-right, single pass), write the
\* result back and print a confirmation line.
EXTENDS FiniteSets, Integers, Naturals, Sequences, TLC

\* The three literal patterns of the replace calls.
P1 == "import { startSepoliaWatcher } from './sepoliaWatcher.js'\n"
P2 == "  const stopSepoliaWatcher = startSepoliaWatcher(ctx, store)\n"
P3 == "    stopSepoliaWatcher()\n"
Patterns == {P1, P2, P3}

Message == "updated index.ts"

\* Positions at which p occurs in s.
Occurrences(s, p) ==
  {i \in 1..(Len(s) - Len(p) + 1) : SubSeq(s, i, i + Len(p) - 1) = p}

\* s.find(p): leftmost occurrence of p in s, 0 when absent.
Find(s, p) ==
  LET M == Occurrences(s, p)
  IN  IF M = {} THEN 0 ELSE CHOOSE i \in M : \A j \in M : i <= j

\* Mutant: str.replace(p, "", 1), only the leftmost occurrence is removed.
ReplaceFirst(s, p) ==
  LET i == Find(s, p)
  IN  IF i = 0 THEN s ELSE SubSeq(s, 1, i - 1) \o SubSeq(s, i + Len(p), Len(s))

\* Mutant: a match test that compares only the first character of p.
RECURSIVE ReplaceLoose(_, _)
ReplaceLoose(s, p) ==
  LET M == {i \in 1..(Len(s) - Len(p) + 1) : SubSeq(s, i, i) = SubSeq(p, 1, 1)}
      i == IF M = {} THEN 0 ELSE CHOOSE x \in M : \A y \in M : x <= y
  IN  IF i = 0 THEN s
      ELSE SubSeq(s, 1, i - 1) \o ReplaceLoose(SubSeq(s, i + Len(p), Len(s)), p)

\* Python str.replace(p, ""): take the leftmost occurrence, drop it, continue
\* after it; text produced by a removal is never rescanned.
RECURSIVE ReplaceAll(_, _)
ReplaceAll(s, p) ==
  LET i == Find(s, p)
  IN  IF i = 0 THEN s
      ELSE SubSeq(s, 1, i - 1) \o ReplaceAll(SubSeq(s, i + Len(p), Len(s)), p)

\* Path.read_text() opens the file in text mode with universal newlines:
\* every "\r\n" and every lone "\r" reaches the program as "\n".
RECURSIVE DecodeNewlines(_)
DecodeNewlines(s) ==
  LET M == {i \in 1..Len(s) : SubSeq(s, i, i) = "\r"}
      i == IF M = {} THEN 0 ELSE CHOOSE x \in M : \A y \in M : x <= y
  IN  IF i = 0 THEN s
      ELSE IF i < Len(s) /\ SubSeq(s, i + 1, i + 1) = "\n"
           THEN SubSeq(s, 1, i - 1) \o "\n" \o DecodeNewlines(SubSeq(s, i + 2, Len(s)))
           ELSE SubSeq(s, 1, i - 1) \o "\n" \o DecodeNewlines(SubSeq(s, i + 1, Len(s)))

\* The three replace calls of the module body, in their order.
Patch(s) == ReplaceAll(ReplaceAll(ReplaceAll(s, P1), P2), P3)

\* ------------------------------------------------------------------------
\* Inputs: file contents built from whole pattern lines, fragments of the
\* patterns (so that a removal can splice text together), other lines, and
\* lines ended by "\r\n" or a lone "\r".
MaxPieces == 3
A3 == "    stopSepo"
B3 == "liaWatcher()\n"
OtherLine == "x\n"
OtherLineCRLF == "x\r\n"
OtherLineCR == "x\r"
P3CRLF == "    stopSepoliaWatcher()\r\n"
Frags == {P1, P2, P3, A3, B3, OtherLine, OtherLineCRLF, OtherLineCR, P3CRLF}

RECURSIVE Flatten(_)
Flatten(f) == IF f = <<>> THEN "" ELSE Head(f) \o Flatten(Tail(f))

ScenarioInput ==
  P1 \o "function main() {\n" \o P2 \o "  doWork()\n" \o P3 \o "}\n"
ScenarioOutput == "function main() {\n  doWork()\n}\n"
NoMatchInput == "function main() { doWork() }"
SpliceInput ==
  P1 \o "imp" \o P2 \o "ort { startSepoliaWatcher } from './sepoliaWatcher.js'\n" \o P3
ScenarioInputCRLF ==
  "import { startSepoliaWatcher } from './sepoliaWatcher.js'\r\n" \o
  "function main() {\r\n" \o
  "  const stopSepoliaWatcher = startSepoliaWatcher(ctx, store)\r\n" \o
  "  doWork()\r\n" \o "    stopSepoliaWatcher()\r\n" \o "}\r\n"

Inputs ==
  {Flatten(f) : f \in UNION {[1..n -> Frags] : n \in 0..MaxPieces}}
    \cup {ScenarioInput, ScenarioInputCRLF, NoMatchInput, SpliceInput}

\* ------------------------------------------------------------------------
\* stdout: the process's standard output, an open stream or absent
\* (sys.stdout is None when the process starts with fd 1 closed).
VARIABLES input, stdout, file, text, pc, out, reads, writes
vars == <<input, stdout, file, text, pc, out, reads, writes>>

Init ==
  /\ input \in Inputs
  /\ stdout \in {"open", "none"}
  /\ file = input
  /\ text = ""
  /\ pc = "read"
  /\ out = <<>>
  /\ reads = 0
  /\ writes = 0

\* Mutant: the file is read without newline translation.
ReadRaw ==
  /\ pc = "read"
  /\ text' = file
  /\ reads' = reads + 1
  /\ pc' = "r1"
  /\ UNCHANGED <<input, stdout, file, out, writes>>

\* text = path.read_text()
Read ==
  /\ pc = "read"
  /\ text' = DecodeNewlines(file)
  /\ reads' = reads + 1
  /\ pc' = "r1"
  /\ UNCHANGED <<input, stdout, file, out, writes>>

\* Mutant: the file is opened for writing (truncated) before the read fails.
ReadFailTruncate ==
  /\ pc = "read"
  /\ reads' = reads + 1
  /\ file' = ""
  /\ pc' = "read_failed"
  /\ UNCHANGED <<input, stdout, text, out, writes>>

\* path.read_text() raises (absent, unreadable, a directory): unhandled.
ReadFail ==
  /\ pc = "read"
  /\ reads' = reads + 1
  /\ pc' = "read_failed"
  /\ UNCHANGED <<input, stdout, file, text, out, writes>>

\* text = text.replace(P1, "")
Replace1 ==
  /\ pc = "r1"
  /\ text' = ReplaceAll(text, P1)
  /\ pc' = "r2"
  /\ UNCHANGED <<input, stdout, file, out, reads, writes>>

\* text = text.replace(P2, "")
Replace2 ==
  /\ pc = "r2"
  /\ text' = ReplaceAll(text, P2)
  /\ pc' = "r3"
  /\ UNCHANGED <<input, stdout, file, out, reads, writes>>

\* Mutant: the third replace call is missing.
Replace3Skip ==
  /\ pc = "r3"
  /\ text' = text
  /\ pc' = "write"
  /\ UNCHANGED <<input, stdout, file, out, reads, writes>>

\* text = text.replace(P3, "")
Replace3 ==
  /\ pc = "r3"
  /\ text' = ReplaceAll(text, P3)
  /\ pc' = "write"
  /\ UNCHANGED <<input, stdout, file, out, reads, writes>>

\* Mutant: the confirmation is printed as part of the write.
WriteEcho ==
  /\ pc = "write"
  /\ file' = text
  /\ writes' = writes + 1
  /\ out' = Append(out, Message)
  /\ pc' = "report"
  /\ UNCHANGED <<input, stdout, text, reads>>

\* path.write_text(text)
Write ==
  /\ pc = "write"
  /\ file' = text
  /\ writes' = writes + 1
  /\ pc' = "report"
  /\ UNCHANGED <<input, stdout, text, out, reads>>

\* path.write_text(text) raises: either open fails (file untouched) or the
\* file was truncated by open and the write fails after a prefix of text
\* reached the file (e.g. the file size limit).
WriteFail ==
  /\ pc = "write"
  /\ file' \in {file} \cup {SubSeq(text, 1, k) : k \in 0..Len(text)}
  /\ writes' = writes + 1
  /\ pc' = "write_failed"
  /\ UNCHANGED <<input, stdout, text, out, reads>>

\* print('updated index.ts') on an open stdout.
Report ==
  /\ pc = "report"
  /\ stdout = "open"
  /\ out' = Append(out, Message)
  /\ pc' = "done"
  /\ UNCHANGED <<input, stdout, file, text, reads, writes>>

\* print('updated index.ts') with sys.stdout None: print writes nothing and
\* the run ends normally.
ReportNoStdout ==
  /\ pc = "report"
  /\ stdout = "none"
  /\ pc' = "done"
  /\ UNCHANGED <<input, stdout, file, text, out, reads, writes>>

\* print('updated index.ts') raises (stdout unwritable, e.g. full or over
\* the file size limit): the file is already written, a prefix of the line,
\* possibly empty, reached stdout, the run ends abnormally.
ReportFail ==
  /\ pc = "report"
  /\ stdout = "open"
  /\ out' \in {out} \cup {Append(out, SubSeq(Message, 1, k)) : k \in 1..Len(Message)}
  /\ pc' = "print_failed"
  /\ UNCHANGED <<input, stdout, file, text, reads, writes>>

Next ==
  \/ Read
  \/ ReadFail
  \/ Replace1
  \/ Replace2
  \/ Replace3
  \/ Write
  \/ WriteFail
  \/ Report
  \/ ReportNoStdout
  \/ ReportFail

Spec == Init /\ [][Next]_vars

\* ------------------------------------------------------------------------
\* Helpers for the properties.

Count(s, p) == Cardinality(Occurrences(s, p))

Contains(s, p) == Occurrences(s, p) # {}

NoPattern(s) == \A p \in Patterns : ~Contains(s, p)

\* Every occurrence of every pattern begins a line of s.
LineAligned(s) ==
  \A p \in Patterns : \A i \in Occurrences(s, p) :
    i = 1 \/ SubSeq(s, i - 1, i - 1) = "\n"

\* Index of the first newline of s, 0 when none.
FirstNL(s) ==
  LET M == {i \in 1..Len(s) : SubSeq(s, i, i) = "\n"}
  IN  IF M = {} THEN 0 ELSE CHOOSE i \in M : \A j \in M : i <= j

\* s split into lines that keep their terminating newline.
RECURSIVE LinesKE(_)
LinesKE(s) ==
  IF Len(s) = 0 THEN <<>>
  ELSE LET i == FirstNL(s)
       IN  IF i = 0 THEN <<s>>
           ELSE <<SubSeq(s, 1, i)>> \o LinesKE(SubSeq(s, i + 1, Len(s)))

IsOtherLine(l) == l \notin Patterns

\* s with the occurrence of p at position i deleted.
DeleteAt(s, p, i) == SubSeq(s, 1, i - 1) \o SubSeq(s, i + Len(p), Len(s))

\* Every text obtained from s by deleting whole occurrences of P1, P2 or P3,
\* one at a time (an occurrence of the text at the moment it is deleted).
RECURSIVE Reducts(_)
Reducts(s) ==
  {s} \cup UNION {UNION {Reducts(DeleteAt(s, p, i)) : i \in Occurrences(s, p)} :
                  p \in Patterns}

\* The three removals applied in the order o.
ApplyOrder(s, o) == ReplaceAll(ReplaceAll(ReplaceAll(s, o[1]), o[2]), o[3])

Orders ==
  {<<P1, P2, P3>>, <<P1, P3, P2>>, <<P2, P1, P3>>,
   <<P2, P3, P1>>, <<P3, P1, P2>>, <<P3, P2, P1>>}

\* The pattern removed by the step leaving program position pc.
StepPattern(l) == IF l = "r1" THEN P1 ELSE IF l = "r2" THEN P2 ELSE P3

\* A removal step from s to t leaves the counts of the other patterns alone.
NonInterfering(s, t, p) == \A q \in Patterns \ {p} : Count(t, q) = Count(s, q)

\* ------------------------------------------------------------------------
\* Properties.

\* The text path.read_text() returned for the original file content.
InputText == DecodeNewlines(input)

\* C1 (as stated): patching the written content again changes nothing,
\* patch(patch(C)) = patch(C), for every input content C.
C1_Idempotent == pc = "done" => Patch(file) = file

\* C1 (amended): patch(patch(C)) = patch(C) for every input C whose read text
\* has every occurrence of each pattern at the beginning of a line.
C1_IdempotentAligned ==
  (pc = "done" /\ LineAligned(InputText)) => Patch(file) = file

C1_Witness ==
  /\ pc = "done" /\ LineAligned(InputText)
  /\ Contains(InputText, P1) /\ Contains(InputText, P2)

\* C2 (as stated): after the patch the written content contains none of the
\* three patterns, whatever the input.
C2_NoPatternLeft == pc = "done" => NoPattern(file)

\* C2 (amended): the written content contains none of the three patterns for
\* every input whose read text has every occurrence of each pattern at the
\* beginning of a line.
C2_NoPatternLeftAligned ==
  (pc = "done" /\ LineAligned(InputText)) => NoPattern(file)

C2_Witness ==
  /\ pc = "done" /\ LineAligned(InputText)
  /\ \A p \in Patterns : Contains(InputText, p)

\* C3 (as stated): for an input containing each pattern exactly once, the
\* output contains none of them and keeps every other line in order.
C3_Selective ==
  (pc = "done" /\ \A p \in Patterns : Count(input, p) = 1) =>
    /\ NoPattern(file)
    /\ LinesKE(file) = SelectSeq(LinesKE(input), IsOtherLine)

\* C3 (amended): for an input whose read text contains each pattern exactly
\* once, each at the beginning of a line, the output contains none of them
\* and keeps every other line of the read text in order.
C3_SelectiveAligned ==
  (pc = "done" /\ LineAligned(InputText) /\ \A p \in Patterns : Count(InputText, p) = 1) =>
    /\ NoPattern(file)
    /\ LinesKE(file) = SelectSeq(LinesKE(InputText), IsOtherLine)

C3_Witness ==
  /\ pc = "done" /\ LineAligned(InputText)
  /\ \A p \in Patterns : Count(InputText, p) = 1
  /\ Len(file) > 0

\* C4 (as stated): an input containing none of the patterns is written back unchanged and
\* the confirmation is still printed.
C4_NoOpOnAbsence ==
  (pc = "done" /\ NoPattern(input)) => (file = input /\ out = <<Message>>)

\* C4 (amended): an input whose read text contains none of the patterns is
\* written back as that read text (identical to the input when it has no
\* carriage return) and the confirmation is still printed when the process
\* has a standard output stream.
C4_NoOpOnAbsenceDecoded ==
  (pc = "done" /\ NoPattern(InputText)) =>
    /\ file = InputText
    /\ out = IF stdout = "open" THEN <<Message>> ELSE <<>>

C4_Witness == pc = "done" /\ NoPattern(InputText) /\ file # input

\* C5 (as stated): each removal step leaves the number of occurrences of the
\* other two patterns unchanged.
C5_NonInterference ==
  [][(pc \in {"r1", "r2", "r3"} /\ text' # text) =>
       NonInterfering(text, text', StepPattern(pc))]_vars

\* C5 (amended): the same for every input whose read text has every
\* occurrence of each pattern at the beginning of a line.
C5_NonInterferenceAligned ==
  [][(pc \in {"r1", "r2", "r3"} /\ LineAligned(InputText)) =>
       NonInterfering(text, text', StepPattern(pc))]_vars

C5_Witness ==
  /\ pc = "r2" /\ LineAligned(InputText)
  /\ Contains(InputText, P1) /\ Contains(text, P2) /\ Contains(text, P3)

\* C6: the six-line scenario is written as the three remaining lines, and
\* the confirmation is printed.
C6_Scenario ==
  (pc = "done" /\ input = ScenarioInput) =>
    (file = ScenarioOutput /\ out = <<Message>>)

\* C6 (amended): the scenario is written as the three remaining lines, and
\* the confirmation is printed when the process has a standard output stream
\* (with none, nothing is printed and the run still ends normally).
C6_ScenarioWithStdout ==
  (pc = "done" /\ input = ScenarioInput) =>
    /\ file = ScenarioOutput
    /\ out = IF stdout = "open" THEN <<Message>> ELSE <<>>

C6_Witness == pc = "done" /\ input = ScenarioInput /\ stdout = "open"

\* Program positions, successful end and the three failure ends.
StepOrder ==
  {<<"read", "r1">>, <<"r1", "r2">>, <<"r2", "r3">>, <<"r3", "write">>,
   <<"write", "report">>, <<"report", "done">>,
   <<"read", "read_failed">>, <<"write", "write_failed">>,
   <<"report", "print_failed">>}

\* C7 (as stated): the run goes read, three removals, write, report; the
\* file is read and written at most once, and the confirmation is printed
\* once per successful run, only after the write completed.
C7_Ordering ==
  /\ [][(<<pc, pc'>> \in StepOrder)]_vars
  /\ [](/\ reads <= 1 /\ writes <= 1 /\ Len(out) <= 1
        /\ (Len(out) > 0 => (writes = 1 /\ file = text))
        /\ (pc = "done" => (reads = 1 /\ writes = 1 /\ out = <<Message>>)))

\* C7 (amended): the same order; the file is read and written at most once;
\* output appears only after the write completed; a successful run prints
\* the confirmation exactly once when it has a standard output stream and
\* nothing when it has none; a failing print may leave a prefix of the line.
C7_OrderingStdout ==
  /\ [][(<<pc, pc'>> \in StepOrder)]_vars
  /\ [](/\ reads <= 1 /\ writes <= 1 /\ Len(out) <= 1
        /\ (Len(out) > 0 =>
              (pc \in {"done", "print_failed"} /\ writes = 1 /\ file = text))
        /\ (pc = "done" =>
              /\ reads = 1 /\ writes = 1
              /\ out = IF stdout = "open" THEN <<Message>> ELSE <<>>))

C7_Witness == pc = "done" /\ out = <<Message>>

\* C8: a failed read ends the run with the file untouched and nothing
\* printed; a failed write ends the run with nothing printed.
C8_Errors ==
  /\ [](/\ pc = "read_failed" => (writes = 0 /\ file = input /\ out = <<>>)
        /\ pc = "write_failed" => out = <<>>)
  /\ [][(pc \in {"read_failed", "write_failed"}) => (pc' = pc)]_vars

C8_Witness == pc = "read_failed" /\ reads = 1

\* C9 (as stated): the output is obtained from the input by deleting whole
\* occurrences of P1, P2 or P3; it is no longer than the input, and of equal
\* length exactly when no pattern occurs in the input.
C9_DeletionOnly ==
  pc = "done" =>
    /\ file \in Reducts(input)
    /\ Len(file) <= Len(input)
    /\ (Len(file) = Len(input) <=> NoPattern(input))

\* C9 (amended): the output is obtained from the read text by deleting whole
\* occurrences of P1, P2 or P3; it is no longer than the read text or the
\* input, and as long as the read text exactly when no pattern occurs in it.
C9_DeletionOnlyDecoded ==
  pc = "done" =>
    /\ file \in Reducts(InputText)
    /\ Len(file) <= Len(InputText)
    /\ Len(file) <= Len(input)
    /\ (Len(file) = Len(InputText) <=> NoPattern(InputText))

C9_Witness == pc = "done" /\ Len(file) < Len(input)

\* C10 (as stated): removing the patterns from the read text in any order
\* gives the same output as the fixed order P1, P2, P3.
C10_OrderIndependent ==
  pc = "done" => \A o \in Orders : ApplyOrder(InputText, o) = file

\* C10 (amended): the same, on the read text, for every input whose read text
\* has every occurrence of each pattern at the beginning of a line.
C10_OrderIndependentAligned ==
  (pc = "done" /\ LineAligned(InputText)) =>
    \A o \in Orders : ApplyOrder(InputText, o) = file

C10_Witness ==
  /\ pc = "done" /\ LineAligned(InputText)
  /\ \A p \in Patterns : Contains(InputText, p)

====
